---------------------------- MODULE Spec2Model ----------------------------
(***************************************************************************)
(* A model of the IPDR ingestion engine: the mapping suggestion and        *)
(* validation functions (ai.service / ipdr.service), the per-record        *)
(* Transform stream IPDRProcessor, and the processUpload / processFile     *)
(* request pipeline.                                                       *)
(*                                                                         *)
(* JavaScript strings are sequences of one-character strings, so that the  *)
(* string functions of the code (toLowerCase, includes, replace, parseInt, *)
(* the edit distance) are computed rather than assumed.  Other JavaScript  *)
(* values are tagged records (see Undef, Null, Str, Num, ...).             *)
(***************************************************************************)
EXTENDS Integers, Sequences, FiniteSets, TLC

VARIABLES
  \* ---- mapping analysis (analyzeFileHeaders / getSuggestedMapping) ----
  fileHeaders,      \* the header row of the analysed file
  aiOutcome,        \* what the suggestion collaborator answered
  suggested,        \* the value getSuggestedMapping returned
  candidate,        \* the mapping last given to validateRequiredFields
  report,           \* the report validateRequiredFields returned
  \* ---- one IPDRProcessor fed rows directly ----
  processor,        \* [mapping, recordCount, errorCount, validationErrors]
  pushed,           \* the lines the processor pushed downstream
  consumed,         \* the rows given to _transform so far
  lastRow,          \* what the last _transform call did
  \* ---- process requests (processUpload / processFile) ----
  files,            \* path -> TRUE while the temporary file exists
  req,              \* request id -> the request's state
  store,            \* the destination table: the lines COPYed so far
  \* ---- one field through the CSV encoder (toCsv of _recordToCsv) ----
  csvValue,         \* the field value
  csvField,         \* what toCsv made of it
  csvDecoded        \* what a CSV reader makes of that

mapVars  == <<fileHeaders, aiOutcome, suggested, candidate, report>>
procVars == <<processor, pushed, consumed, lastRow>>
reqVars  == <<files, req, store>>
csvVars  == <<csvValue, csvField, csvDecoded>>
vars     == <<mapVars, procVars, reqVars, csvVars>>

-----------------------------------------------------------------------------
(* JavaScript values *)

Undef      == [t |-> "undefined"]
Null       == [t |-> "null"]
NaN        == [t |-> "NaN"]
Str(s)     == [t |-> "string", s |-> s]
Num(n)     == [t |-> "number", n |-> n]
Obj(props) == [t |-> "object", props |-> props]
Arr(props) == [t |-> "array", props |-> props]
DateOf(ms) == [t |-> "date", ms |-> ms]
InvalidDate == [t |-> "invalidDate"]

\* ToBoolean: what `!v`, `v ? a : b` and `v || d` test
Truthy(v) ==
  CASE v.t = "string" -> v.s # <<>>
    [] v.t = "number" -> v.n # 0
    [] v.t \in {"object", "array", "date", "invalidDate"} -> TRUE
    [] OTHER -> FALSE

\* obj[key] throws a TypeError on null and undefined
PropThrows(v) == v.t \in {"null", "undefined"}

\* obj[key] for a field-name key: own property, else undefined; a primitive
\* string or number has no such property
GetProp(v, key) ==
  IF v.t \in {"object", "array"} /\ key \in DOMAIN v.props
    THEN v.props[key]
    ELSE Undef

\* obj[key] = val in sloppy mode: sets the property of an object (an array
\* is one); on a primitive the assignment is silently dropped
SetProp(v, key, val) ==
  IF v.t \in {"object", "array"}
    THEN [v EXCEPT !.props =
            [k \in (DOMAIN v.props) \cup {key} |->
               IF k = key THEN val ELSE v.props[k]]]
    ELSE v

-----------------------------------------------------------------------------
(* Strings *)

\* The single element of a one-element set
The(S) == CHOOSE x \in S : TRUE

Min2(a, b) == IF a <= b THEN a ELSE b
Max2(a, b) == IF a >= b THEN a ELSE b

Upper == <<"A","B","C","D","E","F","G","H","I","J","K","L","M",
           "N","O","P","Q","R","S","T","U","V","W","X","Y","Z">>
Lower == <<"a","b","c","d","e","f","g","h","i","j","k","l","m",
           "n","o","p","q","r","s","t","u","v","w","x","y","z">>

LowerOf == [c \in {Upper[i] : i \in 1..Len(Upper)} |->
              Lower[CHOOSE i \in 1..Len(Upper) : Upper[i] = c]]
UpperOf == [c \in {Lower[i] : i \in 1..Len(Lower)} |->
              Upper[CHOOSE i \in 1..Len(Lower) : Lower[i] = c]]

ToLowerChar(c) == IF c \in DOMAIN LowerOf THEN LowerOf[c] ELSE c
ToUpperChar(c) == IF c \in DOMAIN UpperOf THEN UpperOf[c] ELSE c

toLowerCase(s) == [i \in 1..Len(s) |-> ToLowerChar(s[i])]
toUpperCase(s) == [i \in 1..Len(s) |-> ToUpperChar(s[i])]

\* String.prototype.includes
includes(s, sub) ==
  \E i \in 0..(Len(s) - Len(sub)) :
     \A j \in 1..Len(sub) : s[i + j] = sub[j]

\* Array.prototype.includes over a list of strings
ArrayIncludes(list, x) == \E i \in 1..Len(list) : list[i] = x

-----------------------------------------------------------------------------
(* config/schemaDefinition.js and the REQUIRED_FIELDS table *)

\* Object.keys(REQUIRED_FIELDS), in insertion order
REQUIRED_FIELDS ==
  <<"a_party_id", "src_ip", "dst_ip", "dst_port", "start_time">>

\* REQUIRED_FIELDS[field]: the message of the field
RequiredMessage(field) ==
  CASE field = "a_party_id" -> "Subscriber identifier is absolutely required for IPDR analysis"
    [] field = "src_ip" -> "Source IP is required to identify the subscriber's network endpoint"
    [] field = "dst_ip" -> "Destination IP is required to identify what service was accessed"
    [] field = "dst_port" -> "Destination port is required to identify the service type"
    [] field = "start_time" -> "Session start time is required for temporal analysis"

\* Object.keys(schemaDefinition), in insertion order
SchemaKeys ==
  <<"a_party_id", "start_time", "end_time", "duration_ms", "dst_ip",
    "dst_port", "nat_ip", "src_ip", "bytes_up", "bytes_down", "protocol">>

\* schemaDefinition[field].required
schemaDefinition ==
  [f \in {SchemaKeys[i] : i \in 1..Len(SchemaKeys)} |->
     [required |-> f \in {"a_party_id", "start_time", "dst_ip", "dst_port"}]]

SeqToSet(s) == {s[i] : i \in 1..Len(s)}

-----------------------------------------------------------------------------
(* validateRequiredFields (ipdr.service.js) *)

IMPORTANT_OPTIONAL == <<"bytes_up", "bytes_down", "protocol">>

T_session    == <<"s","e","s","s","i","o","n">>
T_subscriber == <<"s","u","b","s","c","r","i","b","e","r">>
T_msisdn     == <<"m","s","i","s","d","n">>
T_imsi       == <<"i","m","s","i">>

\* `!mapping[f] || mapping[f] === null`
\* Unmapped with only null and undefined taken as no header
UnmappedNullOnly(mapping, f) ==
  GetProp(mapping, f) \in {Undef, Null}

Unmapped(mapping, f) ==
  ~Truthy(GetProp(mapping, f)) \/ GetProp(mapping, f) = Null

RequiredErrors(mapping) ==
  LET missing == SelectSeq(REQUIRED_FIELDS, LAMBDA f : Unmapped(mapping, f))
  IN  [i \in 1..Len(missing) |->
         [field |-> missing[i], message |-> RequiredMessage(missing[i]),
          severity |-> "error"]]

OptionalWarnings(mapping) ==
  LET missing == SelectSeq(IMPORTANT_OPTIONAL, LAMBDA f : Unmapped(mapping, f))
  IN  [i \in 1..Len(missing) |->
         [field |-> missing[i],
          message |-> "is not mapped - data volume/protocol analysis will be limited",
          severity |-> "warning"]]

SessionWarning(mapping) ==
  IF Truthy(GetProp(mapping, "a_party_id"))
    THEN LET mappedHeader == toLowerCase(GetProp(mapping, "a_party_id").s)
         IN  IF /\ includes(mappedHeader, T_session)
                /\ ~includes(mappedHeader, T_subscriber)
                /\ ~includes(mappedHeader, T_msisdn)
                /\ ~includes(mappedHeader, T_imsi)
               THEN << [field |-> "a_party_id",
                        message |-> "Mapped field appears to be session ID rather than subscriber ID - this may limit subscriber analysis",
                        severity |-> "warning"] >>
               ELSE <<>>
    ELSE <<>>

MappedRequiredCount(mapping) ==
  Len(SelectSeq(REQUIRED_FIELDS,
                LAMBDA f : Truthy(GetProp(mapping, f)) /\ GetProp(mapping, f) # Null))

validateRequiredFields(mapping, headers) ==
  LET errors == RequiredErrors(mapping)
  IN  [isValid |-> Len(errors) = 0,
       errors |-> errors,
       warnings |-> OptionalWarnings(mapping) \o SessionWarning(mapping),
       requiredFieldsCount |-> Len(REQUIRED_FIELDS),
       mappedRequiredCount |-> MappedRequiredCount(mapping)]

-----------------------------------------------------------------------------
(* The fuzzy matcher (ai.service) *)

FIELD_PATTERNS ==
  ("a_party_id" :> <<
        <<"m","s","i","s","d","n">>,
        <<"i","m","s","i">>,
        <<"s","u","b","s","c","r","i","b","e","r","_","i","d">>,
        <<"u","s","e","r","_","i","d">>,
        <<"c","a","l","l","i","n","g","_","p","a","r","t","y">>,
        <<"a","_","n","u","m","b","e","r">>,
        <<"m","o","b","i","l","e","_","n","u","m","b","e","r">>,
        <<"p","h","o","n","e","_","n","u","m","b","e","r">>,
        <<"c","a","l","l","e","r","_","i","d">>,
        <<"s","u","b","s","c","r","i","b","e","r">>,
        <<"a","c","c","o","u","n","t","_","i","d">>,
        <<"c","u","s","t","o","m","e","r","_","i","d">>
     >>)
  @@ ("src_ip" :> <<
        <<"a","_","p","a","r","t","y","_","i","p">>,
        <<"s","o","u","r","c","e","_","i","p">>,
        <<"p","r","i","v","a","t","e","_","i","p">>,
        <<"c","l","i","e","n","t","_","i","p">>,
        <<"u","s","e","r","_","i","p">>,
        <<"i","n","t","e","r","n","a","l","_","i","p">>,
        <<"l","o","c","a","l","_","i","p">>,
        <<"o","r","i","g","i","n","a","t","i","n","g","_","i","p">>
     >>)
  @@ ("dst_ip" :> <<
        <<"b","_","p","a","r","t","y","_","i","p">>,
        <<"d","e","s","t","i","n","a","t","i","o","n","_","i","p">>,
        <<"d","e","s","t","_","i","p">>,
        <<"s","e","r","v","e","r","_","i","p">>,
        <<"t","a","r","g","e","t","_","i","p">>,
        <<"r","e","m","o","t","e","_","i","p">>,
        <<"e","x","t","e","r","n","a","l","_","i","p">>,
        <<"c","a","l","l","e","d","_","i","p">>
     >>)
  @@ ("start_time" :> <<
        <<"s","t","a","r","t","_","t","i","m","e">>,
        <<"s","e","s","s","i","o","n","_","s","t","a","r","t">>,
        <<"b","e","g","i","n","_","t","i","m","e">>,
        <<"c","a","l","l","_","s","t","a","r","t">>,
        <<"t","i","m","e","s","t","a","m","p">>,
        <<"s","t","a","r","t","_","t","i","m","e","s","t","a","m","p">>,
        <<"s","e","s","s","i","o","n","_","b","e","g","i","n">>,
        <<"c","o","n","n","e","c","t","i","o","n","_","s","t","a","r","t">>
     >>)
  @@ ("end_time" :> <<
        <<"e","n","d","_","t","i","m","e">>,
        <<"s","e","s","s","i","o","n","_","e","n","d">>,
        <<"s","t","o","p","_","t","i","m","e">>,
        <<"c","a","l","l","_","e","n","d">>,
        <<"f","i","n","i","s","h","_","t","i","m","e">>,
        <<"e","n","d","_","t","i","m","e","s","t","a","m","p">>,
        <<"s","e","s","s","i","o","n","_","s","t","o","p">>,
        <<"c","o","n","n","e","c","t","i","o","n","_","e","n","d">>
     >>)
  @@ ("dst_port" :> <<
        <<"b","_","p","a","r","t","y","_","p","o","r","t">>,
        <<"d","e","s","t","i","n","a","t","i","o","n","_","p","o","r","t">>,
        <<"d","e","s","t","_","p","o","r","t">>,
        <<"s","e","r","v","e","r","_","p","o","r","t">>,
        <<"t","a","r","g","e","t","_","p","o","r","t">>,
        <<"r","e","m","o","t","e","_","p","o","r","t">>,
        <<"c","a","l","l","e","d","_","p","o","r","t">>
     >>)
  @@ ("protocol" :> <<
        <<"p","r","o","t","o","c","o","l">>,
        <<"l","4","_","p","r","o","t","o","c","o","l">>,
        <<"t","r","a","n","s","p","o","r","t","_","p","r","o","t","o","c","o","l">>,
        <<"i","p","_","p","r","o","t","o","c","o","l">>
     >>)
  @@ ("bytes_up" :> <<
        <<"b","y","t","e","s","_","u","p">>,
        <<"u","p","l","i","n","k","_","v","o","l","u","m","e">>,
        <<"u","p","l","o","a","d","_","b","y","t","e","s">>,
        <<"t","x","_","b","y","t","e","s">>,
        <<"s","e","n","t","_","b","y","t","e","s">>,
        <<"o","u","t","b","o","u","n","d","_","b","y","t","e","s">>,
        <<"u","p","s","t","r","e","a","m","_","b","y","t","e","s">>
     >>)
  @@ ("bytes_down" :> <<
        <<"b","y","t","e","s","_","d","o","w","n">>,
        <<"d","o","w","n","l","i","n","k","_","v","o","l","u","m","e">>,
        <<"d","o","w","n","l","o","a","d","_","b","y","t","e","s">>,
        <<"r","x","_","b","y","t","e","s">>,
        <<"r","e","c","e","i","v","e","d","_","b","y","t","e","s">>,
        <<"i","n","b","o","u","n","d","_","b","y","t","e","s">>,
        <<"d","o","w","n","s","t","r","e","a","m","_","b","y","t","e","s">>,
        <<"b","y","t","e","s","_","t","r","a","n","s","f","e","r","r","e","d">>
     >>)

\* Object.keys(FIELD_PATTERNS), in insertion order
PatternKeys ==
  <<"a_party_id", "src_ip", "dst_ip", "start_time", "end_time", "dst_port",
    "protocol", "bytes_up", "bytes_down">>

\* the characters /[_\s-]/ matches, among those that occur in the inputs
IsSeparator(c) == c \in {"_", " ", "-", "\t", "\n", "\r"}

\* s.toLowerCase().replace(/[_\s-]/g, '')
Normalize(s) == SelectSeq(toLowerCase(s), LAMBDA c : ~IsSeparator(c))

\* Scores are the rationals <<numerator, denominator>>
ScoreGt(a, b) == a[1] * b[2] > b[1] * a[2]
ScoreExact    == <<10, 10>>
ScoreContains == <<8, 10>>
ScoreZero     == <<0, 10>>
ScoreAccept   == <<7, 10>>     \* similarity > 0.7
ScoreConfidence == <<6, 10>>   \* score > 0.6

\* One row of the matrix of levenshteinDistance: matrix[j][0..Len(str1)],
\* from the row above (prev) and the character str2[j - 1]; rows are
\* 1-indexed here, so column i of the code is position i + 1.  (The value
\* handed to the next step is bound by a quantifier, so that it is computed
\* once; the same holds for the other loops below.)
RECURSIVE LevRow(_, _, _, _, _)
LevRow(prev, str1, ch, i, acc) ==
  IF i > Len(str1)
    THEN acc
    ELSE The({LevRow(prev, str1, ch, i + 1, Append(acc, cell)) :
                cell \in {Min2(Min2(acc[i] + 1, prev[i + 1] + 1),
                               prev[i] + (IF str1[i] = ch THEN 0 ELSE 1))}})

RECURSIVE LevRows(_, _, _, _)
LevRows(prev, str1, str2, j) ==
  IF j > Len(str2)
    THEN prev
    ELSE The({LevRows(row, str1, str2, j + 1) :
                row \in {LevRow(prev, str1, str2[j], 1, <<j>>)}})

levenshteinDistance(str1, str2) ==
  The({LevRows(row0, s1, s2, 1)[Len(s1) + 1] :
         <<row0, s1, s2>> \in {[i \in 1..(Len(str1) + 1) |-> i - 1]} \X {str1} \X {str2}})

calculateSimilarity(str1, str2) ==
  LET longer  == IF Len(str1) > Len(str2) THEN str1 ELSE str2
      shorter == IF Len(str1) > Len(str2) THEN str2 ELSE str1
  IN  IF Len(longer) = 0
        THEN ScoreExact
        ELSE <<Len(longer) - levenshteinDistance(longer, shorter), Len(longer)>>

\* the loop of fuzzyMatchField from pattern k on: the first pattern that
\* matches in any of the three ways decides the score
RECURSIVE FuzzyFrom(_, _, _)
FuzzyFrom(headerLower, patterns, k) ==
  IF k > Len(patterns)
    THEN ScoreZero
    ELSE The({
      IF headerLower = patternLower
        THEN ScoreExact
        ELSE IF includes(headerLower, patternLower)
                \/ includes(patternLower, headerLower)
          THEN ScoreContains
          ELSE The({IF ScoreGt(similarity, ScoreAccept)
                      THEN similarity
                      ELSE FuzzyFrom(headerLower, patterns, k + 1) :
                    similarity \in {calculateSimilarity(headerLower, patternLower)}}) :
      patternLower \in {Normalize(patterns[k])}})

fuzzyMatchField(header, patterns) ==
  The({FuzzyFrom(headerLower, patterns, 1) : headerLower \in {Normalize(header)}})

\* BestFrom that keeps the first header above the confidence threshold
RECURSIVE BestFromFirst(_, _, _, _)
BestFromFirst(headers, patterns, k, best) ==
  IF k > Len(headers)
    THEN best
    ELSE The({BestFromFirst(headers, patterns, k + 1,
                IF best.bestMatch = Null /\ ScoreGt(score, ScoreConfidence)
                  THEN [bestMatch |-> Str(headers[k]), bestScore |-> score]
                  ELSE best) :
              score \in {fuzzyMatchField(headers[k], patterns)}})

\* the forEach over fileHeaders in createFallbackMapping, from header k on,
\* with the best match so far
RECURSIVE BestFrom(_, _, _, _)
BestFrom(headers, patterns, k, best) ==
  IF k > Len(headers)
    THEN best
    ELSE The({BestFrom(headers, patterns, k + 1,
                IF ScoreGt(score, best.bestScore) /\ ScoreGt(score, ScoreConfidence)
                  THEN [bestMatch |-> Str(headers[k]), bestScore |-> score]
                  ELSE best) :
              score \in {fuzzyMatchField(headers[k], patterns)}})

BestMatch(headers, schemaField) ==
  BestFrom(headers, FIELD_PATTERNS[schemaField], 1,
           [bestMatch |-> Null, bestScore |-> ScoreZero])

createFallbackMapping(headers) ==
  Obj([f \in SeqToSet(SchemaKeys) \cup SeqToSet(PatternKeys) |->
         IF f \in SeqToSet(PatternKeys)
           THEN The({IF Truthy(b.bestMatch) THEN b.bestMatch ELSE Null :
                     b \in {BestMatch(headers, f)}})
           ELSE Null])

-----------------------------------------------------------------------------
(* getSuggestedMapping (ai.service) *)

\* Object.keys(schemaDefinition).filter(field => schemaDefinition[field].required)
SchemaRequiredFields ==
  SelectSeq(SchemaKeys, LAMBDA f : schemaDefinition[f].required)

\* the merge loop over Object.keys(fallbackMapping), from key k on
RECURSIVE MergeFrom(_, _, _, _)
MergeFrom(aiMapping, fallbackMapping, keys, k) ==
  IF k > Len(keys)
    THEN aiMapping
    ELSE The({MergeFrom(merged, fallbackMapping, keys, k + 1) :
              merged \in {IF ~Truthy(GetProp(aiMapping, keys[k]))
                             /\ Truthy(GetProp(fallbackMapping, keys[k]))
                            THEN SetProp(aiMapping, keys[k],
                                         GetProp(fallbackMapping, keys[k]))
                            ELSE aiMapping}})

\* mappedRequiredFields.length < requiredFields.length * 0.6
PoorCoverage(aiMapping) ==
  10 * Len(SelectSeq(SchemaRequiredFields,
                     LAMBDA f : Truthy(GetProp(aiMapping, f))
                                /\ GetProp(aiMapping, f) # Null))
    < 6 * Len(SchemaRequiredFields)

\* outcome: what the collaborator call and JSON.parse produced:
\*   [kind |-> "apiError"], [kind |-> "parseError"] or
\*   [kind |-> "parsed", value |-> the parsed JavaScript value]
getSuggestedMapping(headers, outcome) ==
  IF outcome.kind # "parsed"
    THEN createFallbackMapping(headers)          \* catch (error)
    ELSE IF PropThrows(outcome.value)
      THEN createFallbackMapping(headers)        \* TypeError, caught
      ELSE IF PoorCoverage(outcome.value)
        THEN The({MergeFrom(outcome.value, fallbackMapping, SchemaKeys, 1) :
                  fallbackMapping \in {createFallbackMapping(headers)}})
        ELSE outcome.value

-----------------------------------------------------------------------------
(* Inputs of the mapping functions *)

T_user       == <<"u","s","e","r">>
T_source_ip  == <<"s","o","u","r","c","e","_","i","p">>
T_dest_ip    == <<"d","e","s","t","_","i","p">>
T_dest_port  == <<"d","e","s","t","_","p","o","r","t">>
T_start_time == <<"s","t","a","r","t","_","t","i","m","e">>
T_session_id == <<"s","e","s","s","i","o","n","_","i","d">>
T_proto      == <<"p","r","o","t","o">>
T_abc        == <<"a","b","c">>

\* The longest header row analysed
MaxHeaders == 3

HeaderPool ==
  <<T_msisdn, T_user, T_source_ip, T_dest_ip, T_dest_port, T_start_time,
    T_session_id, T_subscriber>>

\* Header rows: the runs of at most MaxHeaders consecutive pool headers
HeaderLists ==
  {<<>>} \cup
  {SubSeq(HeaderPool, i, j) :
     <<i, j>> \in {p \in (1..Len(HeaderPool)) \X (1..Len(HeaderPool)) :
                     p[1] <= p[2] /\ p[2] - p[1] < MaxHeaders}}

\* The header the collaborator names for a field, when it names one
AiPick(f) ==
  CASE f = "a_party_id" -> T_user
    [] f = "src_ip"     -> T_source_ip
    [] f = "dst_ip"     -> T_dest_ip
    [] f = "dst_port"   -> T_dest_port
    [] f = "start_time" -> T_start_time

\* Objects the collaborator's answer may parse to: every required field is
\* null or a header, and a few shapes with absent keys and empty strings
AiObjects ==
  {Obj([f \in SeqToSet(REQUIRED_FIELDS) |->
          IF f \in picked THEN Str(AiPick(f)) ELSE Null]) :
     picked \in SUBSET SeqToSet(REQUIRED_FIELDS)}
  \cup {Obj(<<>>),
        Obj([f \in {"a_party_id", "protocol"} |->
               IF f = "a_party_id" THEN Str(<<>>) ELSE Str(T_proto)])}

AiOutcomes ==
  {[kind |-> "apiError"], [kind |-> "parseError"]}
  \cup {[kind |-> "parsed", value |-> v] :
          v \in AiObjects \cup {Null, Str(T_abc), Num(42), Arr(<<>>)}}

\* Mappings given to validateRequiredFields: each required field is absent,
\* null, the empty string or a header; protocol is null or a header
Absent == [t |-> "absent"]

CandidateChoices(f) ==
  IF f = "protocol"
    THEN {Null, Str(T_proto)}
    ELSE {Absent, Null, Str(<<>>), Str(AiPick(f))}
         \cup (IF f = "a_party_id" THEN {Str(T_session_id)} ELSE {})

\* the object with the chosen properties, the absent ones left out
CandidateOf(c) ==
  Obj([f \in {g \in DOMAIN c : c[g] # Absent} |-> c[f]])

CandidateMappings ==
  {CandidateOf([a_party_id |-> a, src_ip |-> s, dst_ip |-> d, dst_port |-> p,
                start_time |-> t, protocol |-> pr]) :
     a \in CandidateChoices("a_party_id"), s \in CandidateChoices("src_ip"),
     d \in CandidateChoices("dst_ip"), p \in CandidateChoices("dst_port"),
     t \in CandidateChoices("start_time"), pr \in CandidateChoices("protocol")}

NoValue == [t |-> "none"]
NoOutcome == [kind |-> "none"]

-----------------------------------------------------------------------------
(* Mapping analysis as a state machine *)

MapIdle ==
  /\ fileHeaders = <<>>
  /\ aiOutcome = NoOutcome
  /\ suggested = NoValue
  /\ candidate = NoValue
  /\ report = NoValue

ProcIdle ==
  /\ processor = NoValue
  /\ pushed = <<>>
  /\ consumed = <<>>
  /\ lastRow = NoValue

ReqIdle ==
  /\ files = <<>>
  /\ req = <<>>
  /\ store = <<>>

CsvIdle ==
  /\ csvValue = NoValue
  /\ csvField = NoValue
  /\ csvDecoded = NoValue

\* The inputs: a header row and a collaborator outcome for an analysis, or a
\* mapping for a validation
InitMap ==
  /\ \/ /\ fileHeaders \in HeaderLists
        /\ aiOutcome \in AiOutcomes
        /\ candidate = NoValue
     \/ /\ fileHeaders = <<>>
        /\ aiOutcome = NoOutcome
        /\ candidate \in CandidateMappings
  /\ suggested = NoValue
  /\ report = NoValue
  /\ ProcIdle
  /\ ReqIdle
  /\ CsvIdle

\* analyzeFileHeaders: the 'headers' event, getSuggestedMapping, then the
\* validation of what it returned
AnalyzeFileHeaders ==
  /\ aiOutcome # NoOutcome
  /\ suggested = NoValue
  /\ suggested' = getSuggestedMapping(fileHeaders, aiOutcome)
  /\ candidate' = suggested'
  /\ report' = validateRequiredFields(suggested', fileHeaders)
  /\ UNCHANGED <<fileHeaders, aiOutcome, procVars, reqVars, csvVars>>

\* validateRequiredFields(confirmedMapping, []), as processUpload and
\* processFile call it
ValidateMapping ==
  /\ aiOutcome = NoOutcome
  /\ candidate # NoValue
  /\ report = NoValue
  /\ report' = validateRequiredFields(candidate, <<>>)
  /\ UNCHANGED <<fileHeaders, aiOutcome, suggested, candidate, procVars, reqVars, csvVars>>

NextMap == AnalyzeFileHeaders \/ ValidateMapping

SpecMap == InitMap /\ [][NextMap]_vars

-----------------------------------------------------------------------------
(* Library functions of JavaScript the record processor uses *)

Digits == <<"0","1","2","3","4","5","6","7","8","9">>
HexLetters == <<"a","b","c","d","e","f">>

\* the value of a digit character in radix 16 (10 and more for a-f, A-F)
DigitValue ==
  [c \in SeqToSet(Digits) \cup SeqToSet(HexLetters)
         \cup {ToUpperChar(h) : h \in SeqToSet(HexLetters)} |->
     IF c \in SeqToSet(Digits)
       THEN (CHOOSE i \in 1..10 : Digits[i] = c) - 1
       ELSE (CHOOSE i \in 1..6 : HexLetters[i] = ToLowerChar(c)) + 9]

IsDigitOf(c, radix) == c \in DOMAIN DigitValue /\ DigitValue[c] < radix

IsWhiteSpace(c) == c \in {" ", "\t", "\n", "\r"}

\* the digits of s from position i on, as a number in the radix; seen tells
\* whether a digit was read
RECURSIVE ParseDigits(_, _, _, _, _)
ParseDigits(s, i, radix, acc, seen) ==
  IF i <= Len(s) /\ IsDigitOf(s[i], radix)
    THEN ParseDigits(s, i + 1, radix, acc * radix + DigitValue[s[i]], TRUE)
    ELSE IF seen THEN Num(acc) ELSE NaN

RECURSIVE SkipWhiteSpace(_, _)
SkipWhiteSpace(s, i) ==
  IF i <= Len(s) /\ IsWhiteSpace(s[i]) THEN SkipWhiteSpace(s, i + 1) ELSE i

Negate(v) == IF v.t = "number" THEN Num(0 - v.n) ELSE v

\* parseInt(string, radix) of a string; radix 0 stands for the radix left
\* out, which reads a 0x prefix as hexadecimal
parseInt(s, radix) ==
  LET i0 == SkipWhiteSpace(s, 1)
      signed == i0 <= Len(s) /\ s[i0] \in {"+", "-"}
      i1 == IF signed THEN i0 + 1 ELSE i0
      hex == /\ radix = 0
             /\ i1 + 1 <= Len(s)
             /\ s[i1] = "0"
             /\ s[i1 + 1] \in {"x", "X"}
      magnitude == IF hex
                     THEN ParseDigits(s, i1 + 2, 16, 0, FALSE)
                     ELSE ParseDigits(s, i1, 10, 0, FALSE)
  IN  IF signed /\ s[i0] = "-" THEN Negate(magnitude) ELSE magnitude

RECURSIVE NatToStr(_)
NatToStr(n) ==
  IF n < 10 THEN <<Digits[n + 1]>> ELSE NatToStr(n \div 10) \o <<Digits[(n % 10) + 1]>>

\* String(n) of an integer
NumToStr(n) == IF n < 0 THEN <<"-">> \o NatToStr(0 - n) ELSE NatToStr(n)

\* n in decimal, at least w digits wide
RECURSIVE Pad(_, _)
Pad(s, w) == IF Len(s) >= w THEN s ELSE Pad(<<"0">> \o s, w)

MsPerDay == 24 * 60 * 60 * 1000

\* The last day of January 1970 a date of the model may name (the
\* milliseconds of later days do not fit the model's integers)
MaxDay == 24

\* Date.parse on the time values of the model: the date-only ISO form
\* 1970-01-DD is read as midnight UTC of that day; the other time values the
\* model feeds ("", "null", "NULL", "garbage") are not dates
DatePrefix == <<"1","9","7","0","-","0","1","-">>

DateParse(s) ==
  IF /\ Len(s) = 10
     /\ SubSeq(s, 1, 8) = DatePrefix
     /\ s[9] \in SeqToSet(Digits) /\ s[10] \in SeqToSet(Digits)
     /\ 10 * DigitValue[s[9]] + DigitValue[s[10]] \in 1..MaxDay
    THEN Num((10 * DigitValue[s[9]] + DigitValue[s[10]] - 1) * MsPerDay)
    ELSE NaN

\* new Date(string)
NewDate(s) == IF DateParse(s) = NaN THEN InvalidDate ELSE DateOf(DateParse(s).n)

\* date.getTime()
GetTime(d) == IF d.t = "date" THEN Num(d.ms) ELSE NaN

\* date.toISOString() of a valid date of January 1970 (an invalid date
\* throws a RangeError, see ToCsv)
toISOString(d) ==
  LET day == d.ms \div MsPerDay + 1
      rest == d.ms % MsPerDay
  IN  DatePrefix \o Pad(NatToStr(day), 2) \o <<"T">>
        \o Pad(NatToStr(rest \div 3600000), 2) \o <<":">>
        \o Pad(NatToStr((rest % 3600000) \div 60000), 2) \o <<":">>
        \o Pad(NatToStr((rest % 60000) \div 1000), 2) \o <<".">>
        \o Pad(NatToStr(rest % 1000), 3) \o <<"Z">>

\* s.split(sep) for a one-character separator
RECURSIVE SplitFrom(_, _, _, _)
SplitFrom(s, sep, i, part) ==
  IF i > Len(s)
    THEN <<part>>
    ELSE IF s[i] = sep
      THEN <<part>> \o SplitFrom(s, sep, i + 1, <<>>)
      ELSE SplitFrom(s, sep, i + 1, Append(part, s[i]))

Split(s, sep) == SplitFrom(s, sep, 1, <<>>)

-----------------------------------------------------------------------------
(* getServiceLabel and the IPDRProcessor (ipdr.service.js) *)

portMap ==
  (80 :> <<"H","T","T","P","/","W","E","B">>)
  @@ (443 :> <<"H","T","T","P","S","/","W","E","B">>)
  @@ (53 :> <<"D","N","S">>)
  @@ (22 :> <<"S","S","H">>)
  @@ (21 :> <<"F","T","P">>)
  @@ (25 :> <<"S","M","T","P">>)
  @@ (110 :> <<"P","O","P","3">>)
  @@ (143 :> <<"I","M","A","P">>)
  @@ (993 :> <<"I","M","A","P","S">>)
  @@ (995 :> <<"P","O","P","3","S">>)
  @@ (3306 :> <<"M","y","S","Q","L">>)
  @@ (5432 :> <<"P","o","s","t","g","r","e","S","Q","L">>)
  @@ (6379 :> <<"R","e","d","i","s">>)
  @@ (27017 :> <<"M","o","n","g","o","D","B">>)
  @@ (8080 :> <<"H","T","T","P","-","A","L","T">>)
  @@ (8443 :> <<"H","T","T","P","S","-","A","L","T">>)
  @@ (1194 :> <<"O","p","e","n","V","P","N">>)
  @@ (1723 :> <<"P","P","T","P">>)
  @@ (5060 :> <<"S","I","P">>)

\* String(v) of the values getServiceLabel is given
ToStr(v) ==
  CASE v.t = "string" -> v.s
    [] v.t = "number" -> NumToStr(v.n)
    [] v.t = "NaN" -> <<"N","a","N">>
    [] v.t = "null" -> <<"n","u","l","l">>
    [] v.t = "undefined" -> <<"u","n","d","e","f","i","n","e","d">>

getServiceLabel(port) ==
  LET portNum == parseInt(ToStr(port), 10)
  IN  IF portNum = NaN
        THEN <<"U","N","K","N","O","W","N">>
        ELSE IF portNum.n \in DOMAIN portMap
          THEN portMap[portNum.n]
          ELSE <<"O","T","H","E","R">>

\* the 13 fields _extractMappedValues reads
ExtractedFields ==
  {"a_party_id", "start_time", "end_time", "duration_ms", "src_ip", "src_port",
   "nat_ip", "nat_port", "dst_ip", "dst_port", "protocol", "bytes_up",
   "bytes_down"}

\* rawRecord[header]: the column of the row, undefined when the row has none
Column(rawRecord, header) ==
  IF header \in DOMAIN rawRecord THEN Str(rawRecord[header]) ELSE Undef

_extractMappedValues(mapping, rawRecord) ==
  [f \in ExtractedFields |->
     IF Truthy(GetProp(mapping, f))
       THEN Column(rawRecord, GetProp(mapping, f).s)
       ELSE Null]

T_null == <<"n","u","l","l">>
T_NULL == <<"N","U","L","L">>

\* MissingValue without the comparison against 'null'
MissingValueNoNullText(value) ==
  \/ ~Truthy(value)
  \/ value = Str(<<>>)
  \/ value = Str(T_NULL)

\* `!value || value === '' || value === 'null' || value === 'NULL'`
MissingValue(value) ==
  \/ ~Truthy(value)
  \/ value = Str(<<>>)
  \/ value = Str(T_null)
  \/ value = Str(T_NULL)

\* one octet of ipv4Regex: 25[0-5] | 2[0-4][0-9] | [01]?[0-9][0-9]?
IsOctet(p) ==
  /\ Len(p) \in 1..3
  /\ \A i \in 1..Len(p) : p[i] \in SeqToSet(Digits)
  /\ Len(p) = 3 =>
       \/ p[1] \in {"0", "1"}
       \/ p[1] = "2" /\ p[2] \in {"0","1","2","3","4"}
       \/ p[1] = "2" /\ p[2] = "5" /\ p[3] \in {"0","1","2","3","4","5"}

ipv4Regex(ip) ==
  LET parts == Split(ip, ".")
  IN  Len(parts) = 4 /\ \A i \in 1..4 : IsOctet(parts[i])

\* ^(?:[0-9a-fA-F]{1,4}:){7}[0-9a-fA-F]{1,4}$
ipv6Regex(ip) ==
  LET parts == Split(ip, ":")
  IN  /\ Len(parts) = 8
      /\ \A i \in 1..8 :
           /\ Len(parts[i]) \in 1..4
           /\ \A j \in 1..Len(parts[i]) : IsDigitOf(parts[i][j], 16)

_isValidIP(ip) == ipv4Regex(ip) \/ ipv6Regex(ip) \/ includes(ip, <<":">>)

MissingErrors(mappedValues) ==
  LET missing == SelectSeq(REQUIRED_FIELDS, LAMBDA f : MissingValue(mappedValues[f]))
  IN  [i \in 1..Len(missing) |->
         [error |-> "Missing required field", field |-> missing[i]]]

FormatErrors(mappedValues) ==
  (IF Truthy(mappedValues["start_time"])
      /\ DateParse(mappedValues["start_time"].s) = NaN
     THEN << [error |-> "Invalid start_time format", field |-> "start_time"] >>
     ELSE <<>>)
  \o
  (IF Truthy(mappedValues["dst_port"])
      /\ (\/ parseInt(mappedValues["dst_port"].s, 0) = NaN
          \/ parseInt(mappedValues["dst_port"].s, 0).n < 1)
     THEN << [error |-> "Invalid dst_port - must be a positive number",
              field |-> "dst_port"] >>
     ELSE <<>>)
  \o
  (IF Truthy(mappedValues["src_ip"]) /\ ~_isValidIP(mappedValues["src_ip"].s)
     THEN << [error |-> "Invalid src_ip format", field |-> "src_ip"] >>
     ELSE <<>>)
  \o
  (IF Truthy(mappedValues["dst_ip"]) /\ ~_isValidIP(mappedValues["dst_ip"].s)
     THEN << [error |-> "Invalid dst_ip format", field |-> "dst_ip"] >>
     ELSE <<>>)

_validateRecord(mappedValues) ==
  LET errors == MissingErrors(mappedValues) \o FormatErrors(mappedValues)
  IN  [isValid |-> Len(errors) = 0, errors |-> errors]

\* `v ? parseInt(v, 10) : dflt`
ParsedOr(v, dflt) == IF Truthy(v) THEN parseInt(v.s, 10) ELSE dflt

\* Duration that takes every explicit duration as milliseconds
DurationAsGiven(mappedValues, startTime, endTime) ==
  IF Truthy(mappedValues["duration_ms"])
    THEN parseInt(mappedValues["duration_ms"].s, 10)
    ELSE IF Truthy(startTime) /\ Truthy(endTime)
      THEN IF GetTime(endTime) = NaN \/ GetTime(startTime) = NaN
             THEN NaN
             ELSE Num(GetTime(endTime).n - GetTime(startTime).n)
      ELSE Null

\* the duration of _processRecord
Duration(mappedValues, startTime, endTime) ==
  IF Truthy(mappedValues["duration_ms"])
    THEN LET duration == parseInt(mappedValues["duration_ms"].s, 10)
         IN  IF duration # NaN /\ duration.n < 1000000
               THEN Num(duration.n * 1000)
               ELSE duration
    ELSE IF Truthy(startTime) /\ Truthy(endTime)
      THEN IF GetTime(endTime) = NaN \/ GetTime(startTime) = NaN
             THEN NaN
             ELSE Num(GetTime(endTime).n - GetTime(startTime).n)
      ELSE Null

\* generateSessionIdentifier: `${srcInfo}_${timestamp}_${random}`; now is
\* Date.now() and suffix what Math.random() gave
T_unknown == <<"u","n","k","n","o","w","n">>

generateSessionIdentifier(record, now, suffix) ==
  LET timestamp == IF Truthy(record.start_time)
                     THEN GetTime(record.start_time)
                     ELSE Num(now)
      srcInfo == IF Truthy(record.src_ip) THEN record.src_ip.s ELSE T_unknown
  IN  Str(srcInfo \o <<"_">> \o ToStr(timestamp) \o <<"_">> \o suffix)

_processRecord(mappedValues, now, suffix) ==
  LET startTime == IF Truthy(mappedValues["start_time"])
                     THEN NewDate(mappedValues["start_time"].s)
                     ELSE DateOf(now)
      endTime == IF Truthy(mappedValues["end_time"])
                   THEN NewDate(mappedValues["end_time"].s)
                   ELSE Null
      dstPort == ParsedOr(mappedValues["dst_port"], Null)
  IN  [a_party_id |->
         IF Truthy(mappedValues["a_party_id"])
           THEN mappedValues["a_party_id"]
           ELSE generateSessionIdentifier(
                  [start_time |-> startTime, src_ip |-> mappedValues["src_ip"]],
                  now, suffix),
       start_time |-> startTime,
       end_time |-> endTime,
       duration_ms |-> Duration(mappedValues, startTime, endTime),
       src_ip |-> mappedValues["src_ip"],
       src_port |-> ParsedOr(mappedValues["src_port"], Null),
       nat_ip |-> mappedValues["nat_ip"],
       nat_port |-> ParsedOr(mappedValues["nat_port"], Null),
       dst_ip |-> mappedValues["dst_ip"],
       dst_port |-> dstPort,
       protocol |-> Str(toUpperCase(IF Truthy(mappedValues["protocol"])
                                      THEN mappedValues["protocol"].s
                                      ELSE <<"T","C","P">>)),
       service_label |-> Str(getServiceLabel(dstPort)),
       bytes_up |-> ParsedOr(mappedValues["bytes_up"], Num(0)),
       bytes_down |-> ParsedOr(mappedValues["bytes_down"], Num(0))]

\* strValue.replace(/"/g, '""')
RECURSIVE DoubleQuotes(_)
DoubleQuotes(s) ==
  IF s = <<>>
    THEN <<>>
    ELSE (IF Head(s) = "\"" THEN <<"\"", "\"">> ELSE <<Head(s)>>)
           \o DoubleQuotes(Tail(s))

\* NeedsQuotes without the test for a newline
NeedsQuotesNoNewline(strValue) ==
  \/ includes(strValue, <<",">>)
  \/ includes(strValue, <<"\"">>)

NeedsQuotes(strValue) ==
  \/ includes(strValue, <<",">>)
  \/ includes(strValue, <<"\"">>)
  \/ includes(strValue, <<"\n">>)

\* toCsv of _recordToCsv; an invalid date makes toISOString throw
ToCsvThrows(value) == value.t = "invalidDate"

toCsv(value) ==
  IF value.t \in {"null", "undefined", "NaN"}
    THEN <<>>
    ELSE IF value.t = "date"
      THEN toISOString(value)
      ELSE LET strValue == ToStr(value)
           IN  IF NeedsQuotes(strValue)
                 THEN <<"\"">> \o DoubleQuotes(strValue) \o <<"\"">>
                 ELSE strValue

\* the column order of the COPY command
CsvOrder ==
  <<"a_party_id", "start_time", "end_time", "duration_ms", "nat_ip", "nat_port",
    "src_ip", "src_port", "dst_ip", "dst_port", "protocol", "service_label",
    "bytes_up", "bytes_down">>

\* [...].join(',') + '\n'
RECURSIVE JoinFrom(_, _)
JoinFrom(cells, k) ==
  IF k > Len(cells)
    THEN <<"\n">>
    ELSE (IF k > 1 THEN <<",">> ELSE <<>>) \o cells[k] \o JoinFrom(cells, k + 1)

_recordToCsvThrows(record) ==
  \E k \in 1..Len(CsvOrder) : ToCsvThrows(record[CsvOrder[k]])

_recordToCsv(record) ==
  JoinFrom([k \in 1..Len(CsvOrder) |-> toCsv(record[CsvOrder[k]])], 1)

\* new IPDRProcessor(confirmedMapping)
NewProcessor(confirmedMapping) ==
  [mapping |-> confirmedMapping,
   recordCount |-> 0,
   errorCount |-> 0,
   validationErrors |-> <<>>]

\* _transform(rawRecord, encoding, callback): the processor after the call,
\* the lines it pushed, how the call ended, how often it called callback,
\* and the clean record behind a pushed line
RejectRecord(p, rawRecord, validation) ==
  [processor |->
     [p EXCEPT !.errorCount = @ + 1,
               !.validationErrors =
                  Append(@, [record |-> p.recordCount + 1,
                             errors |-> validation.errors,
                             rawRecord |-> rawRecord])],
   push |-> <<>>, outcome |-> "rejected", callbacks |-> 1, record |-> NoValue]

\* CatchError without the count of the failure
CatchErrorUncounted(p) ==
  [processor |-> p,
   push |-> <<>>, outcome |-> "caught", callbacks |-> 1, record |-> NoValue]

CatchError(p) ==
  [processor |-> [p EXCEPT !.errorCount = @ + 1],
   push |-> <<>>, outcome |-> "caught", callbacks |-> 1, record |-> NoValue]

PushRecord(p, cleanRecord, csvLine) ==
  [processor |-> [p EXCEPT !.recordCount = @ + 1],
   push |-> <<csvLine>>, outcome |-> "pushed", callbacks |-> 1,
   record |-> cleanRecord]

_transform(p, rawRecord, now, suffix) ==
  LET mappedValues == _extractMappedValues(p.mapping, rawRecord)
      validation == _validateRecord(mappedValues)
      cleanRecord == _processRecord(mappedValues, now, suffix)
  IN  IF ~validation.isValid
        THEN RejectRecord(p, rawRecord, validation)
        ELSE IF _recordToCsvThrows(cleanRecord)
          THEN CatchError(p)
          ELSE PushRecord(p, cleanRecord, _recordToCsv(cleanRecord))

\* successRate of getProcessingStats, in hundredths of a percent:
\* (x * 100).toFixed(2) is the nearest hundredth, and no ratio of two counts
\* below 32 lies halfway between two hundredths
ToFixed2(recordCount, total) ==
  (2 * 10000 * recordCount + total) \div (2 * total)

getProcessingStats(p) ==
  [totalProcessed |-> p.recordCount,
   errors |-> p.errorCount,
   successRate |->
     IF p.recordCount > 0
       THEN [t |-> "string",
             hundredths |-> ToFixed2(p.recordCount, p.recordCount + p.errorCount)]
       ELSE [t |-> "number", hundredths |-> 0],
   validationErrors |-> p.validationErrors]

-----------------------------------------------------------------------------
(* Inputs of the record processor *)

T_end        == <<"e","n","d">>
T_dur        == <<"d","u","r">>
T_up         == <<"u","p">>
V_subscriber == <<"9","1","9">>
V_quoted     == <<"a",",","\"","b","\"">>
V_ip_a       == <<"1",".","2",".","3",".","4">>
V_ip_b       == <<"8",".","8",".","8",".","8">>
V_ip_bad     == <<"1",".","2",".","3">>
V_443        == <<"4","4","3">>
V_59999      == <<"5","9","9","9","9">>
V_zero       == <<"0">>
V_day2       == <<"1","9","7","0","-","0","1","-","0","2">>
V_day3       == <<"1","9","7","0","-","0","1","-","0","3">>
V_garbage    == <<"g","a","r","b","a","g","e">>
V_500        == <<"5","0","0">>
V_2000000    == <<"2","0","0","0","0","0","0">>
V_udp        == <<"u","d","p">>
V_7          == <<"7">>
V_0x1F       == <<"0","x","1","F">>

\* The confirmed mappings of the model: every column mapped, and the
\* required fields only; both pass validateRequiredFields, as processFile
\* demands before it builds a processor
FullMapping ==
  Obj([a_party_id |-> Str(T_msisdn), src_ip |-> Str(T_source_ip),
       dst_ip |-> Str(T_dest_ip), dst_port |-> Str(T_dest_port),
       start_time |-> Str(T_start_time), end_time |-> Str(T_end),
       duration_ms |-> Str(T_dur), protocol |-> Str(T_proto),
       bytes_up |-> Str(T_up), bytes_down |-> Null])

RequiredOnlyMapping ==
  Obj([a_party_id |-> Str(T_msisdn), src_ip |-> Str(T_source_ip),
       dst_ip |-> Str(T_dest_ip), dst_port |-> Str(T_dest_port),
       start_time |-> Str(T_start_time)])

ProcMappings ==
  {m \in {FullMapping, RequiredOnlyMapping} :
     validateRequiredFields(m, <<>>).isValid}

With(row, header, value) ==
  [h \in (DOMAIN row) \cup {header} |-> IF h = header THEN value ELSE row[h]]
Without(row, header) == [h \in (DOMAIN row) \ {header} |-> row[h]]

\* A row csv-parser delivers: header -> string
GoodRow ==
  (T_msisdn :> V_subscriber) @@ (T_source_ip :> V_ip_a) @@ (T_dest_ip :> V_ip_b)
  @@ (T_dest_port :> V_443) @@ (T_start_time :> V_day2) @@ (T_end :> V_day3)
  @@ (T_dur :> <<>>) @@ (T_proto :> V_udp) @@ (T_up :> V_7)

GoodRows ==
  {GoodRow,
   With(GoodRow, T_dur, V_500),
   Without(Without(With(With(With(GoodRow, T_msisdn, V_quoted), T_dur, V_2000000),
                        T_dest_port, V_59999), T_end), T_proto)}

\* Rows in which a required field is missing, empty, "null" or "NULL"
MissingRows ==
  {Without(GoodRow, T_msisdn),
   With(GoodRow, T_msisdn, T_null),
   With(GoodRow, T_source_ip, <<>>),
   Without(GoodRow, T_dest_ip),
   With(GoodRow, T_dest_port, T_NULL),
   With(GoodRow, T_start_time, <<>>)}

\* Rows whose required fields are present and malformed
MalformedRows ==
  {With(GoodRow, T_start_time, V_garbage),
   With(GoodRow, T_dest_port, V_zero),
   With(GoodRow, T_source_ip, V_ip_bad)}

\* A row that passes validation and whose end_time is not a date
BadEndRows == {With(GoodRow, T_end, V_garbage)}

\* A row whose dst_port is written in hexadecimal
HexPortRows == {With(GoodRow, T_dest_port, V_0x1F)}

\* A row whose duration is not a number
BadDurationRows == {With(GoodRow, T_dur, V_garbage)}

RowSet ==
  GoodRows \cup MissingRows \cup MalformedRows \cup BadEndRows
  \cup HexPortRows \cup BadDurationRows

\* The most rows fed to one processor
MaxRows == 3

\* Date.now() and the Math.random() suffix of a synthesized identifier
ClockValues == {MsPerDay}
RandomSuffixes == {<<"k","3","x">>, <<"z","9","q">>}

-----------------------------------------------------------------------------
(* One IPDRProcessor as a state machine *)

InitProc ==
  /\ processor \in {NewProcessor(m) : m \in ProcMappings}
  /\ pushed = <<>>
  /\ consumed = <<>>
  /\ lastRow = NoValue
  /\ MapIdle
  /\ ReqIdle
  /\ CsvIdle

\* The stream hands the next row to _transform once the callback of the
\* previous row was called
TransformRow ==
  /\ Len(consumed) < MaxRows
  /\ lastRow # NoValue => lastRow.callbacks = 1
  /\ \E rawRecord \in RowSet, now \in ClockValues, suffix \in RandomSuffixes :
       \E r \in {_transform(processor, rawRecord, now, suffix)} :
           /\ processor' = r.processor
           /\ pushed' = pushed \o r.push
           /\ consumed' = Append(consumed, rawRecord)
           /\ lastRow' = [outcome |-> r.outcome, callbacks |-> r.callbacks,
                          record |-> r.record]
  /\ UNCHANGED <<mapVars, reqVars, csvVars>>

NextProc == TransformRow

SpecProc == InitProc /\ [][NextProc]_vars

-----------------------------------------------------------------------------
(* Process requests: processUpload (ipdr.controller.js) and processFile *)

\* The requests in flight and the temporary files they may name
Requests == {"r1", "r2"}
Paths == {"uploads/a", "uploads/b"}

\* The most data rows of an uploaded file
MaxFileRows == 2

\* The header row of the uploaded files
UploadHeaders ==
  <<T_msisdn, T_source_ip, T_dest_ip, T_dest_port, T_start_time, T_end, T_dur,
    T_proto, T_up>>

RowPool ==
  <<GoodRow, Without(GoodRow, T_dest_ip), With(GoodRow, T_end, V_garbage),
    With(GoodRow, T_dur, V_500), With(GoodRow, T_dest_port, V_zero)>>

\* What the files hold: a header row and data rows
FileContent ==
  [p \in Paths |->
     [headers |-> UploadHeaders,
      rows |-> IF p = "uploads/a"
                 THEN SubSeq(RowPool, 1, MaxFileRows)
                 ELSE SubSeq(RowPool, 2, MaxFileRows + 1)]]

\* Confirmed mappings a client may send: a valid one, one with a required
\* field unmapped, one that names a column the file does not have
UnmappedSourceMapping ==
  Obj([a_party_id |-> Str(T_msisdn), src_ip |-> Null,
       dst_ip |-> Str(T_dest_ip), dst_port |-> Str(T_dest_port),
       start_time |-> Str(T_start_time)])

GhostColumnMapping ==
  Obj([a_party_id |-> Str(T_user), src_ip |-> Str(T_source_ip),
       dst_ip |-> Str(T_dest_ip), dst_port |-> Str(T_dest_port),
       start_time |-> Str(T_start_time), protocol |-> Str(T_abc)])

ReqMappings == {RequiredOnlyMapping, UnmappedSourceMapping, GhostColumnMapping}

NoPath == ""

NewRequest ==
  [pc |-> "new",
   filePath |-> NoPath,
   confirmedMapping |-> NoValue,
   response |-> [status |-> 0, errors |-> <<>>],
   checks |-> <<>>,
   started |-> FALSE,
   client |-> "none",
   releaseCalls |-> 0,
   opened |-> FALSE,
   rowsRead |-> 0,
   proc |-> NoValue,
   written |-> <<>>,
   result |-> NoValue,
   unlinkCalls |-> 0,
   unlinked |-> "no"]

Respond(status, errors) == [status |-> status, errors |-> errors]

Check(name, ok) == [check |-> name, ok |-> ok]

\* HeaderMismatches that finds every mapped column in the header row
HeaderMismatchesNone(confirmedMapping, headers) == <<>>

\* The messages of the mapped columns the header row lacks (the forEach
\* over Object.entries(confirmedMapping)), in the order of the schema keys
HeaderMismatches(confirmedMapping, headers) ==
  LET keys == SelectSeq(SchemaKeys,
                LAMBDA f : f \in DOMAIN confirmedMapping.props)
      bad == SelectSeq(keys,
               LAMBDA f : /\ Truthy(confirmedMapping.props[f])
                          /\ ~ArrayIncludes(headers, confirmedMapping.props[f].s))
  IN  [i \in 1..Len(bad) |->
         [column |-> confirmedMapping.props[bad[i]].s, field |-> bad[i]]]

InitReq ==
  /\ files = [p \in Paths |-> TRUE]
  /\ req = [r \in Requests |-> NewRequest]
  /\ store = <<>>
  /\ MapIdle
  /\ ProcIdle
  /\ CsvIdle

\* processUpload up to the first await: the body must name a file and a
\* mapping (1a)
Receive(r) ==
  /\ req[r].pc = "new"
  /\ \E path \in Paths \cup {NoPath}, mapping \in ReqMappings \cup {Undef} :
       req' = [req EXCEPT ![r] =
         IF path = NoPath \/ ~Truthy(mapping)
           THEN [@ EXCEPT !.pc = "done",
                          !.response = Respond(400, <<>>)]
           ELSE [@ EXCEPT !.pc = "access",
                          !.filePath = path,
                          !.confirmedMapping = mapping]]
  /\ UNCHANGED <<files, store, mapVars, procVars, csvVars>>

\* fs.access settles (1b); then the mapping is validated (1c) and
\* analyzeFileHeaders starts to read the file
AccessFile(r) ==
  /\ req[r].pc = "access"
  /\ LET q == req[r]
         mappingValidation == validateRequiredFields(q.confirmedMapping, <<>>)
     IN  req' = [req EXCEPT ![r] =
           IF ~files[q.filePath]
             THEN [@ EXCEPT !.pc = "done",
                            !.checks = Append(@, Check("file", FALSE)),
                            !.response = Respond(404, <<>>)]
             ELSE IF ~mappingValidation.isValid
               THEN [@ EXCEPT !.pc = "done",
                              !.checks = @ \o <<Check("file", TRUE),
                                                Check("mapping", FALSE)>>,
                              !.response = Respond(400, mappingValidation.errors)]
               ELSE [@ EXCEPT !.pc = "headers",
                              !.checks = @ \o <<Check("file", TRUE),
                                                Check("mapping", TRUE)>>]]
  /\ UNCHANGED <<files, store, mapVars, procVars, csvVars>>

\* analyzeFileHeaders settles: the read stream failed (the file is gone: the
\* outer catch answers 500) or gave the header row; then the mapped columns
\* are looked up, the request is answered, and processFile runs up to
\* `await pool.connect()`
ReadHeaders(r) ==
  /\ req[r].pc = "headers"
  /\ LET q == req[r]
         headers == FileContent[q.filePath].headers
         validationErrors == HeaderMismatches(q.confirmedMapping, headers)
         validation == validateRequiredFields(q.confirmedMapping, <<>>)
     IN  req' = [req EXCEPT ![r] =
           IF ~files[q.filePath]
             THEN [@ EXCEPT !.pc = "done",
                            !.response = Respond(500, <<>>)]
             ELSE IF Len(validationErrors) > 0
               THEN [@ EXCEPT !.pc = "done",
                              !.checks = Append(@, Check("headers", FALSE)),
                              !.response = Respond(400, validationErrors)]
               ELSE IF ~validation.isValid
                 \* processFile throws before it asks for a connection
                 THEN [@ EXCEPT !.pc = "settled",
                                !.checks = Append(@, Check("headers", TRUE)),
                                !.response = Respond(202, <<>>),
                                !.result = [ok |-> FALSE, error |-> "mapping",
                                            stats |-> NoValue]]
                 ELSE [@ EXCEPT !.pc = "connect",
                                !.checks = Append(@, Check("headers", TRUE)),
                                !.response = Respond(202, <<>>)]]
  /\ UNCHANGED <<files, store, mapVars, procVars, csvVars>>

\* pool.connect() settles: with a client, and then the streams are built
\* and the pipeline starts; or with an error, which rejects processFile
Connect(r) ==
  /\ req[r].pc = "connect"
  /\ \/ req' = [req EXCEPT ![r] =
                  [@ EXCEPT !.pc = "pipeline",
                            !.client = "held",
                            !.started = TRUE,
                            !.proc = NewProcessor(req[r].confirmedMapping)]]
     \/ req' = [req EXCEPT ![r] =
                  [@ EXCEPT !.pc = "settled",
                            !.result = [ok |-> FALSE, error |-> "connect",
                                        stats |-> NoValue]]]
  /\ UNCHANGED <<files, store, mapVars, procVars, csvVars>>

\* PipelineCallback that keeps the client when the pipeline failed
PipelineCallbackKeepsClient(q, err) ==
  LET stats == getProcessingStats(q.proc)
  IN  IF err = "none"
        THEN [q EXCEPT !.pc = "settled",
                       !.client = "released",
                       !.releaseCalls = @ + 1,
                       !.result =
                          [ok |-> TRUE, error |-> "none",
                           stats |-> [recordsProcessed |-> stats.totalProcessed,
                                      errors |-> stats.errors,
                                      successRate |-> stats.successRate,
                                      validationErrors |-> stats.validationErrors]]]
        ELSE [q EXCEPT !.pc = "settled",
                       !.result = [ok |-> FALSE, error |-> err, stats |-> stats]]

\* The callback of pipeline(...): the statistics are read, the client is
\* released, and processFile settles
PipelineCallback(q, err) ==
  LET stats == getProcessingStats(q.proc)
  IN  [q EXCEPT !.pc = "settled",
                !.client = "released",
                !.releaseCalls = @ + 1,
                !.result =
                   IF err = "none"
                     THEN [ok |-> TRUE, error |-> "none",
                           stats |-> [recordsProcessed |-> stats.totalProcessed,
                                      errors |-> stats.errors,
                                      successRate |-> stats.successRate,
                                      validationErrors |-> stats.validationErrors]]
                     ELSE [ok |-> FALSE, error |-> err, stats |-> stats]]

\* The read stream opens the file; a file that is gone is a source error
OpenSource(r) ==
  /\ req[r].pc = "pipeline"
  /\ ~req[r].opened
  /\ req' = [req EXCEPT ![r] =
               IF files[@.filePath]
                 THEN [@ EXCEPT !.opened = TRUE]
                 ELSE PipelineCallback(@, "source")]
  /\ UNCHANGED <<files, store, mapVars, procVars, csvVars>>

\* One row goes through csv-parser, the processor and into the COPY stream
ProcessRow(r) ==
  /\ req[r].pc = "pipeline"
  /\ req[r].opened
  /\ req[r].rowsRead < Len(FileContent[req[r].filePath].rows)
  /\ \E now \in ClockValues, suffix \in RandomSuffixes :
       LET q == req[r]
           rawRecord == FileContent[q.filePath].rows[q.rowsRead + 1]
           t == _transform(q.proc, rawRecord, now, suffix)
       IN  req' = [req EXCEPT ![r] =
                     [@ EXCEPT !.rowsRead = @ + 1,
                               !.proc = t.processor,
                               !.written = @ \o t.push]]
  /\ UNCHANGED <<files, store, mapVars, procVars, csvVars>>

\* An infrastructure error ends the pipeline: the source stream or the COPY
\* stream emits 'error', pipeline destroys the streams and calls back
PipelineError(r) ==
  /\ req[r].pc = "pipeline"
  /\ \E err \in {"source", "sink"} :
       req' = [req EXCEPT ![r] = PipelineCallback(@, err)]
  /\ UNCHANGED <<files, store, mapVars, procVars, csvVars>>

\* The source ends and the COPY completes: the lines written are in the table
PipelineEnd(r) ==
  /\ req[r].pc = "pipeline"
  /\ req[r].opened
  /\ req[r].rowsRead = Len(FileContent[req[r].filePath].rows)
  /\ req' = [req EXCEPT ![r] = PipelineCallback(@, "none")]
  /\ store' = store \o [i \in 1..Len(req[r].written) |->
                          [path |-> req[r].filePath, by |-> r,
                           line |-> req[r].written[i]]]
  /\ UNCHANGED <<files, mapVars, procVars, csvVars>>

\* .then / .catch log the outcome, and .finally unlinks the temporary file
\* (an unlink that fails is logged and swallowed)
Cleanup(r) ==
  /\ req[r].pc = "settled"
  /\ req' = [req EXCEPT ![r] =
               [@ EXCEPT !.pc = "done",
                         !.unlinkCalls = @ + 1,
                         !.unlinked = IF files[req[r].filePath] THEN "ok" ELSE "failed"]]
  /\ files' = [files EXCEPT ![req[r].filePath] = FALSE]
  /\ UNCHANGED <<store, mapVars, procVars, csvVars>>

Next ==
  \E r \in Requests :
    \/ Receive(r)
    \/ AccessFile(r)
    \/ ReadHeaders(r)
    \/ Connect(r)
    \/ OpenSource(r)
    \/ ProcessRow(r)
    \/ PipelineError(r)
    \/ PipelineEnd(r)
    \/ Cleanup(r)

Init == InitReq

Spec == Init /\ [][Next]_vars

-----------------------------------------------------------------------------
(* One field through toCsv and back through a CSV reader *)

\* The longest string given to the encoder
MaxFieldLen == 3

\* Characters of a field: a letter, the comma, the double quote, the
\* newline and the carriage return
FieldChars == {"a", ",", "\"", "\n", "\r"}

FieldStrings ==
  UNION {[1..n -> FieldChars] : n \in 0..MaxFieldLen} \cup {V_quoted}

\* The values of the fields of a clean record: strings, numbers, dates,
\* null, undefined and NaN
FieldValues ==
  {Str(s) : s \in FieldStrings}
    \cup {Num(443), Num(0), Null, Undef, NaN, DateOf(MsPerDay)}

\* The field a CSV reader takes from the text: a quoted field runs to its
\* closing quote, a doubled quote inside it is one quote; a bare field has
\* no comma, quote or newline; ok is FALSE when the text is not one field
RECURSIVE ReadQuoted(_, _, _)
ReadQuoted(text, i, acc) ==
  IF i > Len(text)
    THEN [ok |-> FALSE, value |-> acc]
    ELSE IF text[i] # "\""
      THEN ReadQuoted(text, i + 1, Append(acc, text[i]))
      ELSE IF i < Len(text) /\ text[i + 1] = "\""
        THEN ReadQuoted(text, i + 2, Append(acc, "\""))
        ELSE [ok |-> i = Len(text), value |-> acc]

CsvRead(text) ==
  IF text # <<>> /\ text[1] = "\""
    THEN ReadQuoted(text, 2, <<>>)
    ELSE [ok |-> \A i \in 1..Len(text) : text[i] \notin {",", "\"", "\n"},
          value |-> text]

InitCsv ==
  /\ csvValue \in FieldValues
  /\ csvField = NoValue
  /\ csvDecoded = NoValue
  /\ MapIdle
  /\ ProcIdle
  /\ ReqIdle

\* toCsv(value) of _recordToCsv
EncodeField ==
  /\ csvField = NoValue
  /\ csvField' = Str(toCsv(csvValue))
  /\ UNCHANGED <<csvValue, csvDecoded, mapVars, procVars, reqVars>>

\* The sink reads the field
DecodeField ==
  /\ csvField # NoValue
  /\ csvDecoded = NoValue
  /\ csvDecoded' = CsvRead(csvField.s)
  /\ UNCHANGED <<csvValue, csvField, mapVars, procVars, reqVars>>

NextCsv == EncodeField \/ DecodeField

SpecCsv == InitCsv /\ [][NextCsv]_vars

-----------------------------------------------------------------------------
(* Properties of the record processor, stated for SpecProc *)

\* A value the specification counts as missing: no value, the empty string,
\* "null" or "NULL"
StatedMissing(value) ==
  value \in {Undef, Null, Str(<<>>), Str(T_null), Str(T_NULL)}

\* The row extracts a missing value for at least one required field
RowMissesRequired(mapping, rawRecord) ==
  \E f \in SeqToSet(REQUIRED_FIELDS) :
     StatedMissing(_extractMappedValues(mapping, rawRecord)[f])

\* C1: a row in which a required field (a_party_id, src_ip, dst_ip,
\* dst_port, start_time) extracts to a missing value, "", "null" or "NULL"
\* pushes no line, adds exactly 1 to errorCount, leaves recordCount as it
\* was, and the stream goes on: the callback is called once, so the next
\* row is taken.
C1_MissingRequiredRejected ==
  [][ /\ (consumed' # consumed
          /\ RowMissesRequired(processor.mapping, consumed'[Len(consumed')]))
         => /\ pushed' = pushed
            /\ processor'.errorCount = processor.errorCount + 1
            /\ processor'.recordCount = processor.recordCount
            /\ lastRow'.outcome = "rejected"
            /\ lastRow'.callbacks = 1
      /\ (consumed' # consumed /\ lastRow # NoValue
          /\ lastRow.outcome = "rejected")
         => /\ Len(consumed') = Len(consumed) + 1
            /\ lastRow'.callbacks = 1
            /\ processor'.recordCount + processor'.errorCount
                 = processor.recordCount + processor.errorCount + 1 ]_vars

\* A row without dst_ip was rejected and a later row was still processed
C1_Witness ==
  /\ Len(consumed) >= 2
  /\ consumed[1] = Without(GoodRow, T_dest_ip)
  /\ processor.errorCount = 1
  /\ processor.recordCount = Len(consumed) - 1
  /\ Len(pushed) = Len(consumed) - 1

\* The nearest hundredth of a percent to 100 * part / whole
IsNearestHundredth(h, part, whole) ==
  /\ 2 * (h * whole - 10000 * part) <= whole
  /\ 2 * (10000 * part - h * whole) <= whole

\* C2: recordCount + errorCount is the number of rows consumed,
\* recordCount the number of lines pushed, neither counter ever decreases,
\* and successRate is 100 * recordCount / (recordCount + errorCount)
\* rounded to two decimals, 0 when no row was seen; 95 accepted and 5
\* rejected rows give 95, 5 and "95.00".
C2_CountersAndSuccessRate ==
  /\ [](LET stats == getProcessingStats(processor)
            total == processor.recordCount + processor.errorCount
        IN  /\ total = Len(consumed)
            /\ processor.recordCount = Len(pushed)
            /\ stats.totalProcessed = processor.recordCount
            /\ stats.errors = processor.errorCount
            /\ IF total = 0
                 THEN stats.successRate.hundredths = 0
                 ELSE IsNearestHundredth(stats.successRate.hundredths,
                                         processor.recordCount, total)
            /\ LET example == getProcessingStats(
                                [mapping |-> processor.mapping,
                                 recordCount |-> 95, errorCount |-> 5,
                                 validationErrors |-> <<>>])
               IN  /\ example.totalProcessed = 95
                   /\ example.errors = 5
                   /\ example.successRate = [t |-> "string", hundredths |-> 9500])
  /\ [][ /\ processor'.recordCount >= processor.recordCount
         /\ processor'.errorCount >= processor.errorCount ]_vars

\* Two rows were accepted, one was rejected: 66.67 percent
C2_Witness ==
  /\ processor.recordCount = 2
  /\ processor.errorCount = 1
  /\ Len(pushed) = 2
  /\ getProcessingStats(processor).successRate
       = [t |-> "string", hundredths |-> 6667]

\* C10 (as stated): the diagnostics kept are complete up to a fixed cap:
\* their number is min(errorCount, CAP), so that every row that adds to
\* errorCount, the rows that fail in normalisation or encoding included,
\* adds one diagnostic until the cap is reached.
C10_DiagnosticsCappedAndComplete ==
  \E cap \in 1..(MaxRows + 1) :
     Len(processor.validationErrors) = Min2(processor.errorCount, cap)

-----------------------------------------------------------------------------
(* Properties of the mapping functions, stated for SpecMap *)

\* A field the specification counts as unmapped in a candidate mapping:
\* absent, null or the empty string
StatedUnmapped(mapping, f) ==
  \/ mapping.t \notin {"object", "array"}
  \/ f \notin DOMAIN mapping.props
  \/ mapping.props[f] \in {Undef, Null, Str(<<>>)}

ErrorFields(r) == {r.errors[i].field : i \in 1..Len(r.errors)}

\* C3: validateRequiredFields answers isValid = false exactly when a
\* required field is unmapped (absent, null or empty); isValid is true
\* exactly when errors is empty; errors holds one entry per unmapped
\* required field; and mappedRequiredCount is requiredFieldsCount less the
\* number of errors.
C3_ValidIffAllRequiredMapped ==
  report # NoValue =>
    LET unmapped == {f \in SeqToSet(REQUIRED_FIELDS) : StatedUnmapped(candidate, f)}
    IN  /\ report.isValid = (unmapped = {})
        /\ report.isValid = (report.errors = <<>>)
        /\ ErrorFields(report) = unmapped
        /\ Len(report.errors) = Cardinality(unmapped)
        /\ report.mappedRequiredCount
             = report.requiredFieldsCount - Len(report.errors)
        /\ report.requiredFieldsCount = Cardinality(SeqToSet(REQUIRED_FIELDS))

\* A mapping whose subscriber column is the empty string and whose source
\* column is absent was refused with exactly these two errors
C3_Witness ==
  /\ report # NoValue
  /\ aiOutcome = NoOutcome
  /\ candidate.t = "object"
  /\ "a_party_id" \in DOMAIN candidate.props
  /\ candidate.props["a_party_id"] = Str(<<>>)
  /\ "src_ip" \notin DOMAIN candidate.props
  /\ ~report.isValid
  /\ ErrorFields(report) = {"a_party_id", "src_ip"}
  /\ report.mappedRequiredCount = 3

\* The collaborator's answer parsed to a mapping object
ParsedObject == aiOutcome.kind = "parsed" /\ aiOutcome.value.t = "object"

\* The number of required fields (the five the validator enumerates) the
\* collaborator mapped
StatedCoverageCount(aiMapping) ==
  Cardinality({f \in SeqToSet(REQUIRED_FIELDS) : ~StatedUnmapped(aiMapping, f)})

\* C7 (as stated): when the collaborator's mapping covers less than 0.6 of
\* the required fields, every field it mapped keeps its header and every
\* field it left unmapped takes the header of the fallback (or stays
\* unmapped when the fallback has none); when the coverage is at least 0.6
\* its mapping is returned unchanged.
C7_MergeBelowCoverage ==
  (suggested # NoValue /\ ParsedObject) =>
    LET aiMapping == aiOutcome.value
        fallbackMapping == createFallbackMapping(fileHeaders)
    IN  IF 10 * StatedCoverageCount(aiMapping) < 6 * Len(REQUIRED_FIELDS)
          THEN \A f \in SeqToSet(SchemaKeys) :
                 IF ~StatedUnmapped(aiMapping, f)
                   THEN GetProp(suggested, f) = aiMapping.props[f]
                   ELSE IF Truthy(fallbackMapping.props[f])
                     THEN GetProp(suggested, f) = fallbackMapping.props[f]
                     ELSE ~Truthy(GetProp(suggested, f))
          ELSE suggested = aiMapping

\* C8 (as stated): when the collaborator call fails, its answer does not
\* parse, or it parses to something that is no object of field to header
\* (null, a string, a number, an array), getSuggestedMapping returns
\* exactly what createFallbackMapping gives for the same headers.
C8_FallbackOnInvalidAnswer ==
  (suggested # NoValue /\ aiOutcome # NoOutcome /\ ~ParsedObject) =>
    suggested = createFallbackMapping(fileHeaders)

\* C9 (as stated): the required fields are the same set everywhere: the
\* fields validateRequiredFields raises errors for are the fields the
\* schema catalog marks required, over which getSuggestedMapping computes
\* its coverage.
C9_OneRequiredSet ==
  report # NoValue =>
    /\ SeqToSet(REQUIRED_FIELDS) = SeqToSet(SchemaRequiredFields)
    /\ ErrorFields(report)
         = {f \in SeqToSet(SchemaRequiredFields) : StatedUnmapped(candidate, f)}

-----------------------------------------------------------------------------
(* Properties of the process requests, stated for Spec *)

CheckOrder == <<"file", "mapping", "headers">>

\* Every column the mapping names is in the header row
MappedHeadersExist(mapping, headers) ==
  \A f \in DOMAIN mapping.props :
     \/ mapping.props[f] \in {Undef, Null, Str(<<>>)}
     \/ \E i \in 1..Len(headers) : headers[i] = mapping.props[f].s

\* No required field of the mapping is unmapped
RequiredAllMapped(mapping) ==
  \A f \in SeqToSet(REQUIRED_FIELDS) : ~StatedUnmapped(mapping, f)

Accepted(q) == q.response.status = 202

\* C4: the pre-checks of a request run in the order file, mapping,
\* headers; the first one that fails answers with a rejection and no
\* pipeline is started; the acceptance is answered only after the three
\* passed and before the pipeline starts; so no row is transformed under a
\* mapping with an unmapped required field or with a column the file lacks.
C4_ChecksBeforeAcceptance ==
  \A r \in Requests :
    LET q == req[r]
        n == Len(q.checks)
    IN  /\ n <= Len(CheckOrder)
        /\ \A i \in 1..n : q.checks[i].check = CheckOrder[i]
        /\ \A i \in 1..(n - 1) : q.checks[i].ok
        /\ (n >= 2 => (q.checks[2].ok = RequiredAllMapped(q.confirmedMapping)))
        /\ (n >= 3 => (q.checks[3].ok
                        = MappedHeadersExist(q.confirmedMapping,
                                             FileContent[q.filePath].headers)))
        /\ ((n > 0 /\ ~q.checks[n].ok)
              => /\ q.pc = "done"
                 /\ q.response.status = (IF n = 1 THEN 404 ELSE 400)
                 /\ (n >= 2 => q.response.errors # <<>>)
                 /\ ~q.started
                 /\ q.rowsRead = 0
                 /\ q.proc = NoValue)
        /\ (Accepted(q) <=> (n = 3 /\ q.checks[3].ok))
        /\ (q.started => Accepted(q))
        /\ (q.pc \in {"connect", "pipeline", "settled"} => Accepted(q))
        /\ (q.rowsRead > 0
              => /\ q.started
                 /\ RequiredAllMapped(q.confirmedMapping)
                 /\ MappedHeadersExist(q.confirmedMapping,
                                       FileContent[q.filePath].headers))

\* One request was accepted and has transformed a row, one was refused for
\* a column the file lacks, one check after the two that passed
C4_Witness ==
  \E r1, r2 \in Requests :
    /\ Accepted(req[r1])
    /\ req[r1].rowsRead >= 1
    /\ req[r2].confirmedMapping = GhostColumnMapping
    /\ Len(req[r2].checks) = 3
    /\ ~req[r2].checks[3].ok
    /\ req[r2].response.status = 400

\* The pipeline of the request has reached a terminal state
Terminal(q) == q.pc \in {"settled", "done"}

\* C5 (as stated): for every accepted request the temporary file is
\* unlinked exactly once, only after the pipeline of that request has
\* reached a terminal state, on success and on failure alike (the failure
\* to get a connection included).
C5_FileReleasedOnceAfterTerminal ==
  \A r \in Requests :
    LET q == req[r]
    IN  Accepted(q) =>
          /\ q.unlinkCalls <= 1
          /\ (~files[q.filePath] => Terminal(q))
          /\ (q.unlinkCalls = 1 => q.result # NoValue)
          /\ (q.pc = "done" => (q.unlinkCalls = 1 /\ q.unlinked = "ok"))

\* C6: when the pipeline ends with a source or a sink error, after any
\* number of rows, no further row is processed, processFile rejects with
\* the error and the statistics gathered up to that point, and the
\* connection is released exactly once, as it is on success.
C6_FailureKeepsStatsAndReleases ==
  \A r \in Requests :
    LET q == req[r]
    IN  /\ q.releaseCalls <= 1
        /\ (q.client = "held" <=> q.pc = "pipeline")
        /\ (q.result # NoValue /\ q.result.error \in {"source", "sink"})
             => /\ ~q.result.ok
                /\ q.releaseCalls = 1
                /\ q.client = "released"
                /\ q.result.stats = getProcessingStats(q.proc)
                /\ q.result.stats.totalProcessed = Len(q.written)
                /\ q.result.stats.totalProcessed + q.result.stats.errors
                     = q.rowsRead
                /\ Len(q.result.stats.validationErrors)
                     = Len(q.proc.validationErrors)
        /\ (q.result # NoValue /\ q.result.ok)
             => /\ q.releaseCalls = 1
                /\ q.client = "released"

\* A sink error after one accepted and one rejected row, the client
\* released, the file unlinked after that
C6_Witness ==
  \E r \in Requests :
    /\ req[r].pc = "done"
    /\ req[r].result # NoValue
    /\ req[r].result.error = "sink"
    /\ req[r].rowsRead = 2
    /\ req[r].result.stats.totalProcessed = 1
    /\ req[r].result.stats.errors = 1
    /\ req[r].releaseCalls = 1

-----------------------------------------------------------------------------
(* Properties of the emitted records, stated for SpecProc *)

\* The values the last row consumed extracts to
LastMapped == _extractMappedValues(processor.mapping, consumed[Len(consumed)])

\* The last row consumed was emitted
LastPushed == lastRow # NoValue /\ lastRow.outcome = "pushed"

NoLowerCase(s) == \A i \in 1..Len(s) : \A k \in 1..Len(Lower) : s[i] # Lower[k]

\* C11 (as stated): every record emitted, under a mapping that passed
\* validateRequiredFields, has a non-empty a_party_id, a start_time that is
\* a valid timestamp, a dst_port that is a positive integer, a protocol in
\* upper case ("TCP" when the row has none), and bytes_up, bytes_down 0
\* when the row has none.
C11_EmittedRecordWellFormed ==
  LastPushed =>
    LET record == lastRow.record
    IN  /\ validateRequiredFields(processor.mapping, <<>>).isValid
        /\ record.a_party_id.t = "string"
        /\ record.a_party_id.s # <<>>
        /\ record.start_time.t = "date"
        /\ record.dst_port.t = "number"
        /\ record.dst_port.n >= 1
        /\ record.protocol.t = "string"
        /\ NoLowerCase(record.protocol.s)
        /\ (~Truthy(LastMapped["protocol"])
              => record.protocol = Str(<<"T","C","P">>))
        /\ (~Truthy(LastMapped["bytes_up"]) => record.bytes_up = Num(0))
        /\ (~Truthy(LastMapped["bytes_down"]) => record.bytes_down = Num(0))

\* The row has a value for the field
Present(value) == value \notin {Undef, Null, Str(<<>>)}

\* The duration the rule gives for the extracted values; unparsed is what
\* an explicit duration that is no integer gives
RuleDuration(mappedValues, unparsed) ==
  IF Present(mappedValues["duration_ms"])
    THEN LET n == parseInt(mappedValues["duration_ms"].s, 10)
         IN  IF n.t # "number" THEN unparsed
             ELSE IF n.n < 1000000 THEN Num(n.n * 1000) ELSE n
    ELSE IF Present(mappedValues["start_time"]) /\ Present(mappedValues["end_time"])
      THEN Num(DateParse(mappedValues["end_time"].s).n
                 - DateParse(mappedValues["start_time"].s).n)
      ELSE Null

\* C13 (as stated): for every accepted row duration_ms is n * 1000 when an
\* explicit duration parses to an integer n below 1,000,000 and n when it
\* parses to a larger one (500 gives 500000, 2000000 stays); end minus
\* start in milliseconds when there is no explicit duration and both times
\* are present; null otherwise.
C13_DurationAsStated ==
  LastPushed => lastRow.record.duration_ms = RuleDuration(LastMapped, Null)

\* C13 (amended): as stated, except that an explicit duration that is
\* present and parses to no integer gives NaN instead of null.
C13_DurationRule ==
  LastPushed =>
    LET record == lastRow.record
    IN  /\ record.duration_ms = RuleDuration(LastMapped, NaN)
        /\ (LastMapped["duration_ms"] = Str(V_500)
              => record.duration_ms = Num(500000))
        /\ (LastMapped["duration_ms"] = Str(V_2000000)
              => record.duration_ms = Num(2000000))

\* A row with the explicit duration 500 was accepted, and after it a row
\* whose explicit duration is no number
C13_Witness ==
  /\ LastPushed
  /\ Len(consumed) = 2
  /\ consumed[1] = With(GoodRow, T_dur, V_500)
  /\ consumed[2] = With(GoodRow, T_dur, V_garbage)
  /\ processor.recordCount = 2
  /\ lastRow.record.duration_ms = NaN

-----------------------------------------------------------------------------
(* Properties of the CSV encoder, stated for SpecCsv *)

HasSpecial(s) == \E i \in 1..Len(s) : s[i] \in {",", "\"", "\n"}

\* text is s with every double quote written twice
RECURSIVE IsDoubled(_, _)
IsDoubled(text, s) ==
  IF s = <<>>
    THEN text = <<>>
    ELSE IF Head(s) = "\""
      THEN /\ Len(text) >= 2
           /\ text[1] = "\""
           /\ text[2] = "\""
           /\ IsDoubled(SubSeq(text, 3, Len(text)), Tail(s))
      ELSE /\ Len(text) >= 1
           /\ text[1] = Head(s)
           /\ IsDoubled(Tail(text), Tail(s))

-----------------------------------------------------------------------------
(* Properties of the fuzzy matcher, stated for SpecMap *)

\* The mapping returned is the fallback mapping of the header row
FallbackReturned ==
  suggested # NoValue /\ aiOutcome.kind \in {"apiError", "parseError"}

\* The score of each header of the row for the field
HeaderScores(f) ==
  [i \in 1..Len(fileHeaders) |-> fuzzyMatchField(fileHeaders[i], FIELD_PATTERNS[f])]

\* C14: in createFallbackMapping the header chosen for a field has the
\* highest score among the headers of the file and a score above 0.6; a
\* field no header scores above 0.6 for is left null; no field is mapped
\* to a header that scores 0.6 or less.
C14_BestHeaderAboveThreshold ==
  FallbackReturned =>
    \A f \in SeqToSet(SchemaKeys) :
      IF f \notin SeqToSet(PatternKeys)
        THEN suggested.props[f] = Null
        ELSE \E scores \in {HeaderScores(f)} :
               IF suggested.props[f] = Null
                 THEN \A i \in 1..Len(fileHeaders) : ~ScoreGt(scores[i], <<6, 10>>)
                 ELSE \E i \in 1..Len(fileHeaders) :
                        /\ suggested.props[f] = Str(fileHeaders[i])
                        /\ ScoreGt(scores[i], <<6, 10>>)
                        /\ \A j \in 1..Len(fileHeaders) :
                              ~ScoreGt(scores[j], scores[i])

\* For the row user, source_ip, dest_ip the source address is mapped to
\* source_ip, which scores 1.0, though user, which scores 0.8, comes first
C14_Witness ==
  /\ FallbackReturned
  /\ fileHeaders = <<T_user, T_source_ip, T_dest_ip>>
  /\ ScoreGt(fuzzyMatchField(T_user, FIELD_PATTERNS["src_ip"]), <<6, 10>>)
  /\ suggested.props["src_ip"] = Str(T_source_ip)
  /\ suggested.props["bytes_up"] = Null

ScoreEq(a, b) == a[1] * b[2] = b[1] * a[2]

\* The score of one alias for a header, both normalised: 1.0 when equal,
\* 0.8 when one contains the other, the edit-distance similarity when it
\* exceeds 0.7, and 0 otherwise
StatedAliasScore(headerLower, patternLower) ==
  IF headerLower = patternLower THEN <<10, 10>>
  ELSE IF includes(headerLower, patternLower) \/ includes(patternLower, headerLower)
    THEN <<8, 10>>
    ELSE The({IF ScoreGt(similarity, <<7, 10>>) THEN similarity ELSE <<0, 10>> :
              similarity \in {calculateSimilarity(headerLower, patternLower)}})

\* The scores of the aliases of a field for a header
AliasScores(header, f) ==
  [k \in 1..Len(FIELD_PATTERNS[f]) |->
     StatedAliasScore(Normalize(header), Normalize(FIELD_PATTERNS[f][k]))]

\* C15 (as stated): fuzzyMatchField returns the highest of the scores of
\* the aliases, whatever their order; a header equal to a later alias
\* scores 1.0 even when an earlier alias only contains-matches it.
C15_MaxOverAliases ==
  suggested # NoValue =>
    \A i \in 1..Len(fileHeaders) : \A f \in SeqToSet(PatternKeys) :
      \E score \in {fuzzyMatchField(fileHeaders[i], FIELD_PATTERNS[f])} :
        \E scores \in {AliasScores(fileHeaders[i], f)} :
          /\ \E k \in 1..Len(scores) : ScoreEq(scores[k], score)
          /\ \A k \in 1..Len(scores) : ~ScoreGt(scores[k], score)

-----------------------------------------------------------------------------
(* Properties of the diagnostics, stated for SpecProc *)

\* The positions in the row stream of the rows rejected by validation
RECURSIVE RejectedPositions(_, _)
RejectedPositions(mapping, k) ==
  IF k > Len(consumed)
    THEN <<>>
    ELSE (IF _validateRecord(_extractMappedValues(mapping, consumed[k])).isValid
            THEN <<>>
            ELSE <<k>>)
         \o RejectedPositions(mapping, k + 1)

\* C16 (as stated): the diagnostic of a rejected row carries the 1-based
\* position of the row in the row stream, accepted and rejected rows
\* counted alike, with the reasons and the raw row; no two rejected rows
\* get the same index.
C16_DiagnosticIndexIsRowPosition ==
  \E positions \in {RejectedPositions(processor.mapping, 1)} :
    /\ Len(processor.validationErrors) = Len(positions)
    /\ \A i \in 1..Len(positions) :
         LET entry == processor.validationErrors[i]
         IN  /\ entry.record = positions[i]
             /\ entry.rawRecord = consumed[positions[i]]
             /\ entry.errors # <<>>
    /\ \A i, j \in 1..Len(processor.validationErrors) :
         i # j => processor.validationErrors[i].record
                    # processor.validationErrors[j].record

-----------------------------------------------------------------------------
(* Properties of concurrent process requests, stated for Spec *)

\* The pipeline of the request has opened its file and has not ended
Reading(q) == q.pc = "pipeline" /\ q.opened

\* The requests whose pipelines loaded rows of the file into the store
LoadersOf(path) ==
  {store[i].by : i \in {k \in 1..Len(store) : store[k].path = path}}

\* C17 (as stated): under any interleaving of requests, those that name
\* the same temporary file included, a file is never unlinked while a
\* pipeline that reads it is running, each file is unlinked successfully
\* at most once, and the rows of a file are loaded into the store by at
\* most one pipeline.
C17_RequestsDoNotInterfere ==
  /\ \A r \in Requests : Reading(req[r]) => files[req[r].filePath]
  /\ \A p \in Paths :
       Cardinality({r \in Requests : /\ req[r].filePath = p
                                     /\ req[r].unlinked = "ok"}) <= 1
  /\ \A p \in Paths : Cardinality(LoadersOf(p)) <= 1

====
